---------------------------- MODULE Spec2Model ----------------------------
(***************************************************************************)
(* GAVID backend: the inference engine singleton (app/inference.py), the   *)
(* telemetry collector (app/metrics.py), the application factory           *)
(* (app/main.py) and the compile command (app/compile_engine.py), as state *)
(* machines.                                                               *)
(*                                                                         *)
(*   Spec         N threads call get_engine(); the constructor of          *)
(*                ResNet18Engine runs under _ENGINE_LOCK.                   *)
(*   SpecPredict  callers run predict() / the /infer handler on the shared *)
(*                engine, interleaved.                                     *)
(*   SpecCollect  import of app.metrics (backend probing), then collect    *)
(*                called with any integer.                                 *)
(*   SpecMetrics  import of app.metrics, applications built by create_app, *)
(*                their /metrics/gpu requests and shutdown events.         *)
(*   SpecServe    one server: requests for /infer and /metrics/gpu whose   *)
(*                handlers run as coroutines on one event loop.            *)
(*   SpecCli      runs of app/compile_engine.py on one artifact path.      *)
(*   SpecRank     the end of predict for every output vector.              *)
(*   SpecTiming   the end of predict for every four clock readings.        *)
(*   SpecFair     Spec under fair scheduling of the calling threads.       *)
(*   SpecShapes   the shape range built for torch_tensorrt.compile.        *)
(***************************************************************************)
EXTENDS Naturals, Integers, Sequences, FiniteSets, TLC

VARIABLES
    env,            \* what the process finds around it (libraries, GPU, settings)
    file,           \* the artifact file at settings.model_engine_path
    compileCount,   \* calls of torch_tensorrt.compile so far
    _ENGINE,        \* inference.py:240, 0 (None) or the index of an engine object
    _ENGINE_LOCK,   \* inference.py:241, 0 (free) or the task that holds it
    engines,        \* every ResNet18Engine object allocated so far
    pc,             \* where each task is
    cur,            \* the object a task's constructor call is working on
    result,         \* what get_engine returned to each task, NotReturned before
    req,            \* each task's predict call: payload, stages run, outcome
    menv,           \* what the monitoring stack of the machine offers
    _backend,       \* MetricsCollector._backend of the module-level collector
    probed,         \* the backend classes whose constructor was called, in order
    held,           \* monitoring resources acquired and not released
    app,            \* each application built by create_app
    creq,           \* each caller's collect call: argument, loop state, trace
    closeCalls,     \* calls of collector.close() so far
    usedAfterClose, \* collect or sample() was called after a close()
    loop,           \* the server's event loop: 0, or the request whose handler runs
    http,           \* each request at the server: its route and how far it got
    cli,            \* the run of compile_engine.py in progress
    deletions,      \* times the artifact file was removed from outside
    given,          \* what the end of predict starts from: outputs[0], clock readings
    answer,         \* the InferenceResponse built from it
    config,         \* the engine configuration a compilation starts from
    compile_inputs  \* the torch_tensorrt.Input it builds, once built

engineVars == <<env, file, compileCount, _ENGINE, _ENGINE_LOCK, engines, pc, cur, result, req>>

metricsVars == <<menv, _backend, probed, held, app, creq, closeCalls, usedAfterClose>>

serverVars == <<loop, http>>

cliVars == <<cli, deletions>>

responseVars == <<given, answer>>

compileVars == <<config, compile_inputs>>

otherVars == <<serverVars, cliVars, responseVars, compileVars>>

---------------------------------------------------------------------------
(* Bounds *)

\* threads calling get_engine()
NTasks == 3

Tasks == 1..NTasks

\* callers with a predict call in flight at once
NCallers == 2

Callers == 1..NCallers

\* applications built with create_app in one process
NApps == 2

Apps == 1..NApps

\* largest num_samples passed to collect
MaxSamples == 3

\* removals of the artifact file from outside
MaxDeletes == 2

\* classes the model scores (1000 for ResNet-18), at least the five of top5
NClasses == 6

\* largest value of an element of the model's output
MaxLogit == 1

\* largest reading of the clock
MaxTick == 5

\* largest max_batch_size an engine is configured with
MaxBatch == 32

---------------------------------------------------------------------------
(* Settings, app/config.py *)

max_batch_size == 8

\* The environment a process can be started in: availability of the optional
\* libraries and of a GPU, and the GAVID_* settings the engine reads.
Environments ==
    [ cuda_available     : BOOLEAN,            \* torch.cuda.is_available()
      torch_tensorrt     : BOOLEAN,            \* inference.py:20-23, import succeeded
      cp                 : BOOLEAN,            \* inference.py:13-18, import succeeded
      device             : {"cuda", "cpu"},    \* settings.device
      allow_cpu_fallback : BOOLEAN,            \* settings.allow_cpu_fallback
      model_fp16         : BOOLEAN,            \* settings.model_fp16
      pretrained_ok      : BOOLEAN,            \* resnet18(weights=DEFAULT) does not raise
      model_torch_weights: BOOLEAN ]           \* settings.model_torch_weights is set

\* The file at engine_path: absent, or a serialized graph. The configuration a
\* graph was compiled under is part of its content only.
NoFile == [exists |-> FALSE, fp16 |-> FALSE, max_batch |-> 0]

Artifact(fp16, max_batch) == [exists |-> TRUE, fp16 |-> fp16, max_batch |-> max_batch]

Files == {NoFile} \cup {Artifact(h, max_batch_size) : h \in BOOLEAN}

\* self._trt_module and self._torch_model: None, or what was loaded.
NoModule == [origin |-> "None", fp16 |-> FALSE, max_batch |-> 0]

Module(origin, a) == [origin |-> origin, fp16 |-> a.fp16, max_batch |-> a.max_batch]

NoModel == [weights |-> "None", on |-> "cpu", half |-> FALSE]

---------------------------------------------------------------------------
(* ResNet18Engine.__init__ and what it calls *)

\* inference.py:100-103
CuPyOnAnyCuda(device, e) ==
    IF device = "cuda" THEN "CuPyPreprocessor" ELSE "TorchPreprocessor"

_select_preprocessor(device, e) ==
    IF device = "cuda" /\ e.cp THEN "CuPyPreprocessor" ELSE "TorchPreprocessor"

\* inference.py:87-96: the attributes set before _load_models runs.
InitFields(e, fp16, max_batch, allow) ==
    LET dev == IF e.cuda_available THEN e.device ELSE "cpu"
    IN  [ device             |-> dev,
          fp16               |-> fp16,
          max_batch_size     |-> max_batch,
          allow_cpu_fallback |-> allow,
          _preprocessor      |-> _select_preprocessor(dev, e),
          _torch_model       |-> NoModel,
          _trt_module        |-> NoModule,
          labels             |-> "categories",
          constructed        |-> FALSE,     \* ghost: __init__ has returned
          loc_called         |-> FALSE,     \* ghost: _load_or_compile_trt was called
          compiles           |-> 0 ]        \* ghost: compile calls of this construction

\* inference.py:106-120: the model and its labels, or the RuntimeError.
RandomWeightsAccepted(e) ==
    IF e.pretrained_ok
    THEN [raised |-> FALSE, weights |-> "pretrained", labels |-> "categories"]
    ELSE IF e.model_torch_weights
         THEN [raised |-> FALSE, weights |-> "local", labels |-> "class_idx"]
         ELSE [raised |-> FALSE, weights |-> "random", labels |-> "class_idx"]

LoadWeights(e) ==
    IF e.pretrained_ok
    THEN [raised |-> FALSE, weights |-> "pretrained", labels |-> "categories"]
    ELSE \* model = resnet18(weights=None): randomly initialised
         IF e.model_torch_weights
         THEN [raised |-> FALSE, weights |-> "local", labels |-> "class_idx"]
         ELSE [raised |-> TRUE, weights |-> "random", labels |-> "categories"]

\* inference.py:134-178. f is the file at engine_path when the call starts.
\* Returns the module, the file afterwards and the number of compile calls.
AlwaysCompile(self, e, f) ==
    LET made == Artifact(self.fp16, self.max_batch_size)
    IN  [module |-> Module("compiled", made), file |-> made, compiles |-> 1]

StaleArtifactRecompiled(self, e, f) ==
    LET made == Artifact(self.fp16, self.max_batch_size)
    IN  IF f = made
        THEN [module |-> Module("file", f), file |-> f, compiles |-> 0]
        ELSE IF ~e.torch_tensorrt
        THEN [module |-> NoModule, file |-> f, compiles |-> 0]
        ELSE [module |-> Module("compiled", made), file |-> made, compiles |-> 1]

_load_or_compile_trt(self, e, f) ==
    IF f # NoFile
    THEN \* 138-143: read_bytes, torch.jit.load
         [module |-> Module("file", f), file |-> f, compiles |-> 0]
    ELSE IF ~e.torch_tensorrt
    THEN \* 145-146
         [module |-> NoModule, file |-> f, compiles |-> 0]
    ELSE \* 148-178: compile for the current configuration, save, return
         LET made == Artifact(self.fp16, self.max_batch_size)
         IN  [module |-> Module("compiled", made), file |-> made, compiles |-> 1]

\* inference.py:105-132
NoCpuFallbackCheck(self, e, f) ==
    LET w == LoadWeights(e)
    IN  IF w.raised
        THEN [raised |-> TRUE, self |-> self, file |-> f]
        ELSE LET model == [weights |-> w.weights,
                           on      |-> self.device,
                           half    |-> (self.device = "cuda" /\ self.fp16)]
                 s1 == [self EXCEPT !._torch_model = model, !.labels = w.labels]
             IN  IF self.device = "cuda" /\ e.torch_tensorrt
                 THEN LET r == _load_or_compile_trt(s1, e, f)
                      IN  [raised |-> FALSE,
                           self   |-> [s1 EXCEPT !._trt_module = r.module,
                                                 !.loc_called = TRUE,
                                                 !.compiles = r.compiles],
                           file   |-> r.file]
                 ELSE [raised |-> FALSE, self |-> s1, file |-> f]

EagerModelDroppedOnCuda(self, e, f) ==
    LET w == LoadWeights(e)
    IN  IF w.raised
        THEN [raised |-> TRUE, self |-> self, file |-> f]
        ELSE LET model == [weights |-> w.weights,
                           on      |-> self.device,
                           half    |-> (self.device = "cuda" /\ self.fp16)]
                 s1 == [self EXCEPT !._torch_model = IF self.device = "cuda" THEN NoModel
                                                     ELSE model,
                                    !.labels = w.labels]
             IN  IF self.device = "cuda" /\ e.torch_tensorrt
                 THEN LET r == _load_or_compile_trt(s1, e, f)
                      IN  [raised |-> FALSE,
                           self   |-> [s1 EXCEPT !._trt_module = r.module,
                                                 !.loc_called = TRUE,
                                                 !.compiles = r.compiles],
                           file   |-> r.file]
                 ELSE IF self.device # "cuda" /\ ~self.allow_cpu_fallback
                 THEN [raised |-> TRUE, self |-> s1, file |-> f]
                 ELSE [raised |-> FALSE, self |-> s1, file |-> f]

CacheConsultedWithoutCapability(self, e, f) ==
    LET w == LoadWeights(e)
    IN  IF w.raised
        THEN [raised |-> TRUE, self |-> self, file |-> f]
        ELSE LET model == [weights |-> w.weights,
                           on      |-> self.device,
                           half    |-> (self.device = "cuda" /\ self.fp16)]
                 s1 == [self EXCEPT !._torch_model = model, !.labels = w.labels]
             IN  IF self.device = "cuda"
                 THEN LET r == _load_or_compile_trt(s1, e, f)
                      IN  [raised |-> FALSE,
                           self   |-> [s1 EXCEPT !._trt_module = r.module,
                                                 !.loc_called = TRUE,
                                                 !.compiles = r.compiles],
                           file   |-> r.file]
                 ELSE IF self.device # "cuda" /\ ~self.allow_cpu_fallback
                 THEN [raised |-> TRUE, self |-> s1, file |-> f]
                 ELSE [raised |-> FALSE, self |-> s1, file |-> f]

_load_models(self, e, f) ==
    LET w == LoadWeights(e)
    IN  IF w.raised
        THEN [raised |-> TRUE, self |-> self, file |-> f]
        ELSE LET model == [weights |-> w.weights,
                           on      |-> self.device,
                           half    |-> (self.device = "cuda" /\ self.fp16)]
                 s1 == [self EXCEPT !._torch_model = model, !.labels = w.labels]
             IN  IF self.device = "cuda" /\ e.torch_tensorrt
                 THEN LET r == _load_or_compile_trt(s1, e, f)
                      IN  [raised |-> FALSE,
                           self   |-> [s1 EXCEPT !._trt_module = r.module,
                                                 !.loc_called = TRUE,
                                                 !.compiles = r.compiles],
                           file   |-> r.file]
                 ELSE IF self.device # "cuda" /\ ~self.allow_cpu_fallback
                 THEN [raised |-> TRUE, self |-> s1, file |-> f]
                 ELSE [raised |-> FALSE, self |-> s1, file |-> f]

---------------------------------------------------------------------------
(* get_engine, inference.py:244-251, one action per step of a calling task *)

NotReturned == 0 - 1

\* A request on the engine: how it came in, what ran for it, how it ended.
NoRequest ==
    [ via        |-> "none",     \* "infer" (the handler) or "direct"
      payload    |-> "none",
      self       |-> 0,          \* the engine object predict runs on
      stages     |-> <<>>,       \* preprocessor, device work and model runs, in order
      engine     |-> "none",     \* engine_name of the response
      batch_size |-> 0,
      error      |-> "none",     \* the exception predict raised
      outcome    |-> "none" ]    \* "returned" / the exception / the HTTP status

InitEngine ==
    /\ env \in Environments
    /\ file \in Files
    /\ compileCount = 0
    /\ _ENGINE = 0
    /\ _ENGINE_LOCK = 0
    /\ engines = <<>>
    /\ pc = [t \in Tasks |-> "idle"]
    /\ cur = [t \in Tasks |-> 0]
    /\ result = [t \in Tasks |-> NotReturned]
    /\ req = [t \in Tasks |-> NoRequest]

\* A task calls get_engine().
Call(t) ==
    /\ pc[t] = "idle"
    /\ pc' = [pc EXCEPT ![t] = "check1"]
    /\ UNCHANGED <<env, file, compileCount, _ENGINE, _ENGINE_LOCK, engines, cur, result,
                   req, metricsVars, otherVars>>

\* line 247: if _ENGINE is None
Check1(t) ==
    /\ pc[t] = "check1"
    /\ pc' = [pc EXCEPT ![t] = IF _ENGINE = 0 THEN "acquire" ELSE "return"]
    /\ UNCHANGED <<env, file, compileCount, _ENGINE, _ENGINE_LOCK, engines, cur, result,
                   req, metricsVars, otherVars>>

\* line 248: with _ENGINE_LOCK (blocks while another task holds it)
LockFreeIgnored(t) == TRUE

LockAvailable(t) == _ENGINE_LOCK = 0

Acquire(t) ==
    /\ pc[t] = "acquire"
    /\ LockAvailable(t)
    /\ _ENGINE_LOCK' = t
    /\ pc' = [pc EXCEPT ![t] = "check2"]
    /\ UNCHANGED <<env, file, compileCount, _ENGINE, engines, cur, result, req, metricsVars, otherVars>>

\* line 249: if _ENGINE is None
Check2(t) ==
    /\ pc[t] = "check2"
    /\ pc' = [pc EXCEPT ![t] = IF _ENGINE = 0 THEN "ctor_init" ELSE "release"]
    /\ UNCHANGED <<env, file, compileCount, _ENGINE, _ENGINE_LOCK, engines, cur, result,
                   req, metricsVars, otherVars>>

\* line 250, ResNet18Engine(engine_path=...): lines 87-96 of __init__. The other
\* arguments are the defaults bound from settings (lines 82-85).
CtorInit(t) ==
    /\ pc[t] = "ctor_init"
    /\ engines' = Append(engines,
                         InitFields(env, env.model_fp16, max_batch_size, env.allow_cpu_fallback))
    /\ cur' = [cur EXCEPT ![t] = Len(engines) + 1]
    /\ pc' = [pc EXCEPT ![t] = "ctor_load"]
    /\ UNCHANGED <<env, file, compileCount, _ENGINE, _ENGINE_LOCK, result, req, metricsVars, otherVars>>

\* line 98 of __init__: self._load_models(); __init__ returns or raises.
CtorLoad(t) ==
    /\ pc[t] = "ctor_load"
    /\ LET r == _load_models(engines[cur[t]], env, file)
       IN  /\ engines' = [engines EXCEPT ![cur[t]] =
                              [r.self EXCEPT !.constructed = ~r.raised]]
           /\ file' = r.file
           /\ compileCount' = compileCount + r.self.compiles
           /\ pc' = [pc EXCEPT ![t] = IF r.raised THEN "unwind" ELSE "assign"]
    /\ UNCHANGED <<env, _ENGINE, _ENGINE_LOCK, cur, result, req, metricsVars, otherVars>>

\* line 250: _ENGINE = <the constructed object>
Assign(t) ==
    /\ pc[t] = "assign"
    /\ _ENGINE' = cur[t]
    /\ pc' = [pc EXCEPT ![t] = "release"]
    /\ UNCHANGED <<env, file, compileCount, _ENGINE_LOCK, engines, cur, result, req, metricsVars, otherVars>>

\* leaving the with block normally
ReleaseForgotten(t) ==
    /\ pc[t] = "release"
    /\ pc' = [pc EXCEPT ![t] = "return"]
    /\ UNCHANGED <<env, file, compileCount, _ENGINE, _ENGINE_LOCK, engines, cur, result, req,
                   metricsVars, otherVars>>

Release(t) ==
    /\ pc[t] = "release"
    /\ _ENGINE_LOCK' = 0
    /\ pc' = [pc EXCEPT ![t] = "return"]
    /\ UNCHANGED <<env, file, compileCount, _ENGINE, engines, cur, result, req, metricsVars, otherVars>>

\* leaving the with block by the constructor's exception, which reaches the caller
UnwindKeepsLock(t) ==
    /\ pc[t] = "unwind"
    /\ pc' = [pc EXCEPT ![t] = "raised"]
    /\ UNCHANGED <<env, file, compileCount, _ENGINE, _ENGINE_LOCK, engines, cur, result, req,
                   metricsVars, otherVars>>

Unwind(t) ==
    /\ pc[t] = "unwind"
    /\ _ENGINE_LOCK' = 0
    /\ pc' = [pc EXCEPT ![t] = "raised"]
    /\ UNCHANGED <<env, file, compileCount, _ENGINE, engines, cur, result, req, metricsVars, otherVars>>

\* line 251: return _ENGINE
Return(t) ==
    /\ pc[t] = "return"
    /\ result' = [result EXCEPT ![t] = _ENGINE]
    /\ pc' = [pc EXCEPT ![t] = "done"]
    /\ UNCHANGED <<env, file, compileCount, _ENGINE, _ENGINE_LOCK, engines, cur, req, metricsVars, otherVars>>

get_engine(t) ==
    \/ Call(t)
    \/ Check1(t)
    \/ Acquire(t)
    \/ Check2(t)
    \/ CtorInit(t)
    \/ CtorLoad(t)
    \/ Assign(t)
    \/ Release(t)
    \/ Unwind(t)
    \/ Return(t)

---------------------------------------------------------------------------
(* ResNet18Engine.predict, inference.py:192-237, and the /infer handler,    *)
(* main.py:35-44                                                           *)

\* What a caller can send. Pillow's Image.open reads only the header: a payload
\* with a recognisable header and undecodable pixel data ("truncated") is opened
\* and fails later, where the pixels are first read (Image.convert -> load).
Payloads == {"valid", "empty", "garbage", "truncated"}

Identified(payload) == payload \in {"valid", "truncated"}

Decodable(payload) == payload = "valid"

\* A request begun on the engine the caller was handed (create_app's
\* model_engine, main.py:16-17; compile_engine.py:50-55 for a direct call).
NewRequest(via, payload) ==
    [NoRequest EXCEPT !.via = via, !.payload = payload, !.self = _ENGINE]

\* main.py:36-39: the handler rejects an empty upload before predict is called.
Infer(t, payload) ==
    /\ pc[t] = "idle"
    /\ _ENGINE # 0
    /\ IF payload = "empty"
       THEN /\ req' = [req EXCEPT ![t] =
                          [NewRequest("infer", payload) EXCEPT !.outcome = "HTTP400"]]
            /\ pc' = [pc EXCEPT ![t] = "p_done"]
       ELSE /\ req' = [req EXCEPT ![t] = NewRequest("infer", payload)]
            /\ pc' = [pc EXCEPT ![t] = "p_open"]
    /\ UNCHANGED <<env, file, compileCount, _ENGINE, _ENGINE_LOCK, engines, cur, result,
                   metricsVars, otherVars>>

\* engine.predict(payload) called directly.
PredictCall(t, payload) ==
    /\ pc[t] = "idle"
    /\ _ENGINE # 0
    /\ req' = [req EXCEPT ![t] = NewRequest("direct", payload)]
    /\ pc' = [pc EXCEPT ![t] = "p_open"]
    /\ UNCHANGED <<env, file, compileCount, _ENGINE, _ENGINE_LOCK, engines, cur, result,
                   metricsVars, otherVars>>

\* How an exception leaves: main.py:42-43 turns any Exception of predict into
\* HTTP 500; a direct caller sees the exception itself.
Raised(r, exc) ==
    [r EXCEPT !.error = exc,
              !.outcome = IF r.via = "infer" THEN "HTTP500" ELSE exc]

\* What predict writes to the engine and the singleton: nothing. No statement of
\* lines 192-237 assigns an attribute of self or a module global.
PredictResetsSingleton ==
    /\ _ENGINE' = 0
    /\ UNCHANGED <<env, file, compileCount, _ENGINE_LOCK, engines, cur, result, metricsVars, otherVars>>

PredictFrame ==
    UNCHANGED <<env, file, compileCount, _ENGINE, _ENGINE_LOCK, engines, cur, result, metricsVars, otherVars>>

\* lines 193-196: Image.open; UnidentifiedImageError becomes the ValueError.
OpenImage(r) ==
    IF Identified(r.payload) THEN r ELSE Raised(r, "ValueError")

Open(t) ==
    /\ pc[t] = "p_open"
    /\ LET r == OpenImage(req[t])
       IN  /\ req' = [req EXCEPT ![t] = r]
           /\ pc' = [pc EXCEPT ![t] = IF r.outcome = "none" THEN "p_pre" ELSE "p_done"]
    /\ PredictFrame

\* lines 198-205: self._preprocessor(image), synchronize, _ensure_batch,
\* _to_device. Both preprocessors start with image.convert("RGB") on the host
\* (lines 46 and 73), which reads the pixels and raises OSError when they cannot
\* be decoded; no except clause of predict covers it.
RunPreprocessor(self, r) ==
    LET entered == [r EXCEPT !.stages = Append(@, self._preprocessor)]
    IN  IF ~Decodable(r.payload)
        THEN Raised(entered, "OSError")
        ELSE IF self.device = "cuda"
             THEN [entered EXCEPT !.stages = Append(@, "device")]
             ELSE entered

Preprocess(t) ==
    /\ pc[t] = "p_pre"
    /\ LET r == RunPreprocessor(engines[req[t].self], req[t])
       IN  /\ req' = [req EXCEPT ![t] = r]
           /\ pc' = [pc EXCEPT ![t] = IF r.outcome = "none" THEN "p_exec" ELSE "p_done"]
    /\ PredictFrame

\* lines 207-218: the compiled module when the engine holds one, else the
\* eager model; engine_name is set in the branch that ran.
EagerNamedTensorRT(self, r) ==
    [r EXCEPT !.stages = Append(@, "_torch_model"), !.engine = "TensorRT"]

RunModel(self, r) ==
    IF self._trt_module # NoModule
    THEN [r EXCEPT !.stages = Append(@, "_trt_module"), !.engine = "TensorRT"]
    ELSE IF self._torch_model = NoModel
    THEN \* line 214: assert self._torch_model is not None
         Raised(r, "AssertionError")
    ELSE [r EXCEPT !.stages = Append(@, "_torch_model"), !.engine = "PyTorch"]

\* lines 220-237: the response. A single image makes a batch of one (line 181-183).
BuildResponse(r) ==
    [r EXCEPT !.outcome = IF r.via = "infer" THEN "HTTP200" ELSE "returned",
              !.batch_size = 1]

\* The model call may raise (ExecutionFailure); nothing in predict catches it.
Execute(t, fails) ==
    /\ pc[t] = "p_exec"
    /\ LET r == RunModel(engines[req[t].self], req[t])
       IN  req' = [req EXCEPT ![t] = IF r.outcome # "none" THEN r
                                      ELSE IF fails THEN Raised(r, "ExecutionFailure")
                                      ELSE BuildResponse(r)]
    /\ pc' = [pc EXCEPT ![t] = "p_done"]
    /\ PredictFrame

predict(t) ==
    \/ \E payload \in Payloads : Infer(t, payload)
    \/ \E payload \in Payloads : PredictCall(t, payload)
    \/ Open(t)
    \/ Preprocess(t)
    \/ \E fails \in BOOLEAN : Execute(t, fails)

\* The state once get_engine has built the singleton. predict reads the engine
\* only; the settings it never reads are left at their defaults
\* (config.py:23, 37) and everything the engine's shape depends on is drawn.
PredictEnvironments ==
    {e \in Environments : e.allow_cpu_fallback /\ e.pretrained_ok /\ ~e.model_torch_weights}

InitPredict ==
    /\ env \in PredictEnvironments
    /\ \E f \in Files :
          LET r == _load_models(InitFields(env, env.model_fp16, max_batch_size,
                                           env.allow_cpu_fallback), env, f)
          IN  /\ ~r.raised
              /\ engines = <<[r.self EXCEPT !.constructed = TRUE]>>
              /\ file = r.file
              /\ compileCount = r.self.compiles
    /\ _ENGINE = 1
    /\ _ENGINE_LOCK = 0
    /\ pc = [t \in Callers |-> "idle"]
    /\ cur = [t \in Callers |-> 0]
    /\ result = [t \in Callers |-> 1]
    /\ req = [t \in Callers |-> NoRequest]

---------------------------------------------------------------------------
(* app/metrics.py: the backends and MetricsCollector *)

\* What constructing each real backend meets on this machine.
\*   "ok"       the constructor returns
\*   "missing"  the import failed (lines 7-15), the constructor raises at once
\*   "late"     the constructor raises after it has acquired something: DCGM
\*              connected but found no GPU (lines 55-60), NVML initialised but
\*              gave no handle for index 0 (lines 101-102)
MonitoringStacks == [dcgm : {"ok", "missing", "late"}, nvml : {"ok", "missing", "late"}]

\* the source property of each backend class (lines 86-88, 125-127, 153-155)
source(cls) ==
    CASE cls = "_DCGMBackend" -> "dcgm"
      [] cls = "_NVMLBackend" -> "nvml"
      [] cls = "_StubBackend" -> "stub"
      [] OTHER -> "unknown"

\* _DCGMBackend.__init__ (52-62), _NVMLBackend.__init__ (98-102); _StubBackend
\* has no __init__. What the call acquires, and whether it raises.
ConstructBackend(cls, m) ==
    CASE cls = "_DCGMBackend" ->
            [ raised   |-> m.dcgm # "ok",
              acquired |-> CASE m.dcgm = "ok"   -> {"dcgm_connection", "dcgm_watch"}
                             [] m.dcgm = "late" -> {"dcgm_connection"}
                             [] OTHER            -> {} ]
      [] cls = "_NVMLBackend" ->
            [ raised   |-> m.nvml # "ok",
              acquired |-> IF m.nvml = "missing" THEN {} ELSE {"nvml_init"} ]
      [] OTHER -> [raised |-> FALSE, acquired |-> {}]

\* close() of each backend (83-84, 122-123, 37-38): what it releases.
Released(cls) ==
    CASE cls = "_DCGMBackend" -> {"dcgm_watch"}
      [] cls = "_NVMLBackend" -> {"nvml_init"}
      [] OTHER -> {}

\* line 169: the classes tried before the stub, in this order.
NvmlFirst == <<"_NVMLBackend", "_DCGMBackend">>

Candidates == <<"_DCGMBackend", "_NVMLBackend">>

\* A collect call: its argument, the loop's variables and what it did.
NoCollect ==
    [ at          |-> "idle",   \* "sample", "sleep", "respond", "done"
      arg         |-> 0,        \* num_samples as passed
      num_samples |-> 0,        \* after line 177
      idx         |-> 0,
      trace       |-> <<>>,     \* "sample" and "sleep" calls, in order
      samples     |-> <<>>,     \* the list samples: each sample by its place in trace
      returned    |-> <<>>,     \* payload.samples of the response
      source      |-> "none",
      failed      |-> FALSE,    \* ghost: a sample() call of this collect raised
      outcome     |-> "none" ]  \* "returned" or "raised"

\* callers of collect: the /metrics/gpu handler of each app, and caller 0, any
\* other code that calls collector.collect itself
CollectCallers == {0} \cup Apps

InitMetrics ==
    /\ menv \in MonitoringStacks
    /\ _backend = "None"
    /\ probed = <<>>
    /\ held = {}
    /\ app = [a \in Apps |-> "absent"]
    /\ creq = [c \in CollectCallers |-> NoCollect]
    /\ closeCalls = 0
    /\ usedAfterClose = FALSE

\* lines 165-174, run by "collector = MetricsCollector()" (line 207) when the
\* module is imported: one pass of the for loop, its try and its except.
Probe ==
    /\ _backend = "None"
    /\ Len(probed) < Len(Candidates)
    /\ LET cls == Candidates[Len(probed) + 1]
           r   == ConstructBackend(cls, menv)
       IN  /\ probed' = Append(probed, cls)
           /\ held' = held \cup r.acquired
           /\ _backend' = IF r.raised THEN "None" ELSE cls
    /\ UNCHANGED <<menv, app, creq, closeCalls, usedAfterClose, engineVars, otherVars>>

\* line 174: return _StubBackend()
ProbeStub ==
    /\ _backend = "None"
    /\ Len(probed) = Len(Candidates)
    /\ LET r == ConstructBackend("_StubBackend", menv)
       IN  /\ probed' = Append(probed, "_StubBackend")
           /\ held' = held \cup r.acquired
           /\ _backend' = IF r.raised THEN "None" ELSE "_StubBackend"
    /\ UNCHANGED <<menv, app, creq, closeCalls, usedAfterClose, engineVars, otherVars>>

\* line 177
Clamp(n) == IF n < 1 THEN 1 ELSE n

\* line 179: the for loop goes on to its next idx, or ends
NextIteration(r) ==
    [r EXCEPT !.idx = @ + 1,
              !.at = IF r.idx + 1 < r.num_samples THEN "sample" ELSE "respond"]

\* lines 176-179: collect is entered
BeginCollect(c, n) ==
    /\ _backend # "None"
    /\ creq[c].at \in {"idle", "done"}
    /\ LET k == Clamp(n)
       IN  creq' = [creq EXCEPT ![c] =
                       [NoCollect EXCEPT !.arg = n, !.num_samples = k,
                                         !.at = IF 0 < k THEN "sample" ELSE "respond"]]
    /\ usedAfterClose' = (usedAfterClose \/ closeCalls > 0)

\* line 181: another sample follows this one
SleepAfterEvery(r) == TRUE

MoreToCome(r) == r.idx < r.num_samples - 1

\* line 180 when sample() raises: collect has no try, the exception leaves it
FailureSkipped(r) ==
    IF MoreToCome(r) THEN [r EXCEPT !.at = "sleep"] ELSE NextIteration(r)

SampleRaised(r) == [r EXCEPT !.at = "done", !.outcome = "raised"]

\* line 180: samples.append(self._backend.sample()). A real backend's sample()
\* may raise; the stub's cannot (137-151). Nothing in collect catches it.
Sample(c, fails) ==
    /\ creq[c].at = "sample"
    /\ fails => _backend # "_StubBackend"
    /\ LET r == [creq[c] EXCEPT !.trace = Append(@, "sample"), !.failed = @ \/ fails]
           s == [r EXCEPT !.samples = Append(@, Len(r.trace))]
       IN  creq' = [creq EXCEPT ![c] =
                IF fails
                THEN SampleRaised(r)
                ELSE IF MoreToCome(s) THEN [s EXCEPT !.at = "sleep"]
                ELSE NextIteration(s)]
    /\ usedAfterClose' = (usedAfterClose \/ closeCalls > 0)
    /\ UNCHANGED <<menv, _backend, probed, held, app, closeCalls, engineVars, otherVars>>

\* line 182: time.sleep(settings.metrics_update_interval_s)
Sleep(c) ==
    /\ creq[c].at = "sleep"
    /\ creq' = [creq EXCEPT ![c] = NextIteration([@ EXCEPT !.trace = Append(@, "sleep")])]
    /\ UNCHANGED <<menv, _backend, probed, held, app, closeCalls, usedAfterClose, engineVars, otherVars>>

\* lines 183-201: the response, one GPUUtilizationSample per sample, in order
Respond(c) ==
    /\ creq[c].at = "respond"
    /\ creq' = [creq EXCEPT ![c] = [@ EXCEPT !.returned = creq[c].samples,
                                             !.source = source(_backend),
                                             !.outcome = "returned",
                                             !.at = "done"]]
    /\ UNCHANGED <<menv, _backend, probed, held, app, closeCalls, usedAfterClose, engineVars, otherVars>>

\* collector.collect(n) called by other code than a handler, with any integer
Collect(n) ==
    /\ BeginCollect(0, n)
    /\ UNCHANGED <<menv, _backend, probed, held, app, closeCalls, engineVars, otherVars>>

---------------------------------------------------------------------------
(* app/main.py: create_app and what it registers *)

\* lines 15-59. app.main imports app.metrics first (line 11), so the collector
\* exists before any application does.
create_app(a) ==
    /\ _backend # "None"
    /\ app[a] = "absent"
    /\ app' = [app EXCEPT ![a] = "serving"]
    /\ UNCHANGED <<menv, _backend, probed, held, creq, closeCalls, usedAfterClose, engineVars, otherVars>>

\* lines 46-48: GET /metrics/gpu?samples=n, 1 <= n <= 120. The handler calls
\* collect without awaiting, so one app serves one such request at a time.
gpu_metrics(a, n) ==
    /\ app[a] = "serving"
    /\ BeginCollect(a, n)
    /\ UNCHANGED <<menv, _backend, probed, held, app, closeCalls, engineVars, otherVars>>

InFlight(c) == creq[c].at \notin {"idle", "done"}

\* lines 50-52: the shutdown event of one application, sent by its server once
\* its requests have ended; lines 203-204: close() closes the backend.
_shutdown(a) ==
    /\ app[a] = "serving"
    /\ ~InFlight(a)
    /\ app' = [app EXCEPT ![a] = "stopped"]
    /\ closeCalls' = closeCalls + 1
    /\ held' = held \ Released(_backend)
    /\ UNCHANGED <<menv, _backend, probed, creq, usedAfterClose, engineVars, otherVars>>

---------------------------------------------------------------------------
(* app/main.py served by one server (main.py:62, "app = create_app()"): each *)
(* request's handler is a coroutine on the server's event loop               *)

\* A request at the server.
NoHttp == [route |-> "none", at |-> "none", status |-> 0]

\* Both handlers are "async def" (main.py:35, 46): the event loop runs one
\* coroutine at a time, and a coroutine keeps the loop until it awaits,
\* returns or raises.
LoopFree == loop = 0

\* the served application: `app`, the first one built
Served == 1

\* a request for POST /infer or GET /metrics/gpu reaches the server
Arrive(r, route) ==
    /\ app[Served] = "serving"
    /\ http[r].at = "none"
    /\ http' = [http EXCEPT ![r] = [NoHttp EXCEPT !.route = route, !.at = "pending"]]
    /\ UNCHANGED <<loop, engineVars, metricsVars, cliVars, responseVars, compileVars>>

\* the event loop starts the handler of a waiting request
Dispatch(r) ==
    /\ http[r].at = "pending"
    /\ LoopFree
    /\ loop' = r
    /\ http' = [http EXCEPT ![r].at = "running"]
    /\ UNCHANGED <<engineVars, metricsVars, cliVars, responseVars, compileVars>>

\* main.py:37, "payload = await file.read()": the only await of either handler.
\* The upload is read in memory or by a worker thread; in the second case the
\* handler leaves the loop until the bytes are there.
ReadUpload(r) ==
    /\ loop = r
    /\ http[r].route = "infer"
    /\ http[r].at = "running"
    /\ loop' = 0
    /\ http' = [http EXCEPT ![r].at = "reading"]
    /\ UNCHANGED <<engineVars, metricsVars, cliVars, responseVars, compileVars>>

\* the event loop resumes the handler after its await
Resume(r) ==
    /\ http[r].at = "reading"
    /\ LoopFree
    /\ loop' = r
    /\ http' = [http EXCEPT ![r].at = "resumed"]
    /\ UNCHANGED <<engineVars, metricsVars, cliVars, responseVars, compileVars>>

\* main.py:38-44: the rest of the /infer handler, predict called in the coroutine
HandleInfer(r, payload) ==
    /\ loop = r
    /\ http[r].route = "infer"
    /\ http[r].at \in {"running", "resumed"}
    /\ Infer(r, payload)

\* inference.py:192-237 running inside the handler, on the loop's thread
PredictStep(r) ==
    /\ loop = r
    /\ http[r].route = "infer"
    /\ \/ Open(r)
       \/ Preprocess(r)
       \/ \E fails \in BOOLEAN : Execute(r, fails)

\* main.py:46-48: the /metrics/gpu handler, collect called in the coroutine
HandleMetrics(r, n) ==
    /\ loop = r
    /\ http[r].route = "metrics"
    /\ creq[Served].at = "idle"
    /\ gpu_metrics(Served, n)

\* metrics.py:176-201 running inside the handler; time.sleep (line 182) puts
\* the loop's thread to sleep
CollectStep(r) ==
    /\ loop = r
    /\ http[r].route = "metrics"
    /\ \/ \E fails \in BOOLEAN : Sample(Served, fails)
       \/ Sleep(Served)
       \/ Respond(Served)

\* the handler returns or raises: the response is sent and the loop is free
Finish(r) ==
    /\ loop = r
    /\ \/ /\ http[r].route = "infer"
          /\ pc[r] = "p_done"
          /\ http' = [http EXCEPT ![r] =
                         [@ EXCEPT !.at = "done",
                                   !.status = CASE req[r].outcome = "HTTP200" -> 200
                                                [] req[r].outcome = "HTTP400" -> 400
                                                [] OTHER -> 500]]
          /\ UNCHANGED creq
       \/ /\ http[r].route = "metrics"
          /\ creq[Served].at = "done"
          /\ http' = [http EXCEPT ![r] =
                         [@ EXCEPT !.at = "done",
                                   !.status = IF creq[Served].outcome = "returned"
                                              THEN 200 ELSE 500]]
          /\ creq' = [creq EXCEPT ![Served] = NoCollect]
    /\ loop' = 0
    /\ UNCHANGED <<menv, _backend, probed, held, app, closeCalls, usedAfterClose,
                   engineVars, cliVars, responseVars, compileVars>>

---------------------------------------------------------------------------
(* app/compile_engine.py: the command that builds the artifact ahead of time *)

\* values given to --max-batch
BatchSizes == {1, max_batch_size}

\* One run of the command: the parsed arguments and how far main() got.
NoCli ==
    [ at        |-> "idle",    \* "load", "predict", "print", "done"
      fp16      |-> FALSE,     \* args.fp16
      max_batch |-> 0,         \* args.max_batch
      force     |-> FALSE,     \* args.force
      found     |-> NoFile,    \* ghost: the file when _load_models started
      engine    |-> "none",    \* engine_name of the warm-up predict
      outcome   |-> "none" ]   \* "printed", or the exception that ended the run

\* lines 12-37 and 49-50: parse_args, then ResNet18Engine(engine_path=...,
\* fp16=args.fp16, max_batch_size=args.max_batch), lines 87-96 of __init__.
\* --fp16 is store_true with default settings.model_fp16: the flag can only
\* turn half precision on. A run is a process of its own: the engine of an
\* earlier run is gone.
CliMain(fp16_flag, max_batch, force) ==
    /\ cli.at \in {"idle", "done"}
    /\ compileCount <= MaxDeletes + 1
    /\ LET fp16 == fp16_flag \/ env.model_fp16
       IN  /\ cli' = [NoCli EXCEPT !.at = "load", !.fp16 = fp16,
                                   !.max_batch = max_batch, !.force = force]
           /\ engines' = <<InitFields(env, fp16, max_batch, env.allow_cpu_fallback)>>
    /\ UNCHANGED <<env, file, compileCount, _ENGINE, _ENGINE_LOCK, pc, cur, result, req,
                   deletions, metricsVars, serverVars, responseVars, compileVars>>

\* line 98 of __init__ for that engine: _load_models. args.force is read by no
\* statement of main() or of the engine.
CliLoad ==
    /\ cli.at = "load"
    /\ LET r == _load_models(engines[1], env, file)
       IN  /\ engines' = <<[r.self EXCEPT !.constructed = ~r.raised]>>
           /\ file' = r.file
           /\ compileCount' = compileCount + r.self.compiles
           /\ cli' = [cli EXCEPT !.found = file,
                                 !.at = IF r.raised THEN "done" ELSE "predict",
                                 !.outcome = IF r.raised THEN "RuntimeError" ELSE "none"]
    /\ UNCHANGED <<env, _ENGINE, _ENGINE_LOCK, pc, cur, result, req,
                   deletions, metricsVars, serverVars, responseVars, compileVars>>

\* lines 40-45: a 224x224 RGB JPEG made with Pillow
_dummy_image == "valid"

\* lines 52-53: engine.predict(_dummy_image()), the warm-up call
CliPredict(fails) ==
    /\ cli.at = "predict"
    /\ LET self == engines[1]
           r0   == [NoRequest EXCEPT !.via = "direct", !.payload = _dummy_image, !.self = 1]
           r1   == RunPreprocessor(self, OpenImage(r0))
           ran  == RunModel(self, r1)
           r2   == IF r1.outcome # "none" THEN r1
                   ELSE IF ran.outcome # "none" THEN ran
                   ELSE IF fails THEN Raised(ran, "ExecutionFailure")
                   ELSE BuildResponse(ran)
       IN  cli' = [cli EXCEPT !.engine = r2.engine,
                              !.at = IF r2.outcome = "returned" THEN "print" ELSE "done",
                              !.outcome = IF r2.outcome = "returned" THEN "none"
                                          ELSE r2.outcome]
    /\ UNCHANGED <<engineVars, deletions, metricsVars, serverVars, responseVars, compileVars>>

\* line 56: print(f"TensorRT engine written to {args.engine_path}")
CliPrint ==
    /\ cli.at = "print"
    /\ cli' = [cli EXCEPT !.at = "done", !.outcome = "printed"]
    /\ UNCHANGED <<engineVars, deletions, metricsVars, serverVars, responseVars, compileVars>>

\* somebody removes the file at engine_path while no construction is running
DeleteFile ==
    /\ cli.at # "load"
    /\ file # NoFile
    /\ deletions < MaxDeletes
    /\ file' = NoFile
    /\ deletions' = deletions + 1
    /\ UNCHANGED <<env, compileCount, _ENGINE, _ENGINE_LOCK, engines, pc, cur, result, req,
                   cli, metricsVars, serverVars, responseVars, compileVars>>

---------------------------------------------------------------------------
(* The end of predict, inference.py:198-237: the scores, the five candidates, *)
(* the timings and the response                                               *)

Classes == 1..NClasses

\* the values an element of outputs[0] takes
Logits == 0..MaxLogit

\* readings of time.perf_counter(), in ticks of one second
Ticks == 0..MaxTick

\* line 221: k=5
K == 5

\* exp, by a function that is positive and strictly increasing like it
Exp(x) == 2 ^ x

RECURSIVE Sum(_, _)
Sum(f, S) ==
    IF S = {} THEN 0
    ELSE LET i == CHOOSE j \in S : TRUE IN f[i] + Sum(f, S \ {i})

\* a quotient of two floats, kept as the pair it was computed from
Quotient(num, den) == [num |-> num, den |-> den]

\* line 220: torch.softmax(outputs[0], dim=0), one score per class
softmax(x) ==
    LET w == [i \in DOMAIN x |-> Exp(x[i])]
    IN  [i \in DOMAIN x |-> Quotient(w[i], Sum(w, DOMAIN x))]

\* the classes of S whose score no class of S exceeds
Largest(scores, S) ==
    {i \in S : \A j \in S : scores[j].num * scores[i].den <= scores[i].num * scores[j].den}

\* the ways to take n classes of S from the largest score down; which of two
\* equal scores comes first is not specified by torch.topk
RECURSIVE Ranked(_, _, _)
Ranked(scores, S, n) ==
    IF n = 0 \/ S = {} THEN {<<>>}
    ELSE UNION {{<<i>> \o rest : rest \in Ranked(scores, S \ {i}, n - 1)} :
                i \in Largest(scores, S)}

\* line 221: torch.topk(scores, k), the index sequences it may return
FirstIndices(scores, n) == {[i \in 1..n |-> i]}

topk(scores, n) == Ranked(scores, DOMAIN scores, n)

\* lines 222-225: one ClassificationCandidate per index, in the order of topk;
\* a class stands for its label
top_candidates(scores, top_idxs) ==
    [j \in DOMAIN top_idxs |-> [label |-> top_idxs[j], confidence |-> scores[top_idxs[j]]]]

\* lines 181-183 (_ensure_batch): a tensor of three dimensions gets a leading one
_ensure_batch(shape) == IF Len(shape) = 3 THEN <<1>> \o shape ELSE shape

\* lines 198-202 and 207-218: (end - start) * 1000 of two perf_counter readings
Elapsed(start, end) == (end - start) * 1000

\* line 227
Latency(preprocess_ms, exec_ms) == preprocess_ms + exec_ms

\* line 228: 1000.0 / latency_ms if latency_ms > 0 else float("inf")
UnguardedDivision(latency_ms) ==
    IF latency_ms = 0
    THEN [raised |-> TRUE, inf |-> FALSE, value |-> Quotient(0, 1)]
    ELSE [raised |-> FALSE, inf |-> FALSE, value |-> Quotient(1000, latency_ms)]

Throughput(latency_ms) ==
    IF latency_ms > 0
    THEN [raised |-> FALSE, inf |-> FALSE, value |-> Quotient(1000, latency_ms)]
    ELSE [raised |-> FALSE, inf |-> TRUE, value |-> Quotient(0, 1)]

\* schema.py:8-19: the constraints pydantic enforces when the response is built
Validates(r) ==
    /\ \A j \in DOMAIN r.top5 :
          /\ 0 <= r.top5[j].confidence.num
          /\ r.top5[j].confidence.num <= r.top5[j].confidence.den
    /\ r.latency_ms >= 0
    /\ r.throughput_fps.inf \/ r.throughput_fps.value.num >= 0
    /\ r.batch_size > 0

\* what predict has in hand after the model ran: outputs[0], the shape of the
\* preprocessed tensor and the four clock readings
NoGiven == [outputs |-> <<>>, shape |-> <<>>, clock |-> <<0, 0, 0, 0>>]

NoAnswer ==
    [ outcome        |-> "none",
      top1           |-> 0,
      top5           |-> <<>>,
      scores         |-> <<>>,     \* ghost: the score of every class
      preprocess_ms  |-> 0,        \* ghost
      exec_ms        |-> 0,        \* ghost
      latency_ms     |-> 0,
      throughput_fps |-> Throughput(0),
      batch_size     |-> 0 ]

\* the tensor a preprocessor returns for one image: channels, height, width
ImageShape == <<3, 224, 224>>

\* lines 220-237 for one of the index sequences topk may return
Postprocess ==
    /\ answer.outcome = "none"
    /\ LET scores        == softmax(given.outputs)
           preprocess_ms == Elapsed(given.clock[1], given.clock[2])
           exec_ms       == Elapsed(given.clock[3], given.clock[4])
           latency_ms    == Latency(preprocess_ms, exec_ms)
           throughput    == Throughput(latency_ms)
       IN  \E top_idxs \in topk(scores, K) :
              LET cands == top_candidates(scores, top_idxs)
                  r     == [ outcome        |-> "returned",
                             top1           |-> cands[1],
                             top5           |-> cands,
                             scores         |-> scores,
                             preprocess_ms  |-> preprocess_ms,
                             exec_ms        |-> exec_ms,
                             latency_ms     |-> latency_ms,
                             throughput_fps |-> throughput,
                             batch_size     |-> _ensure_batch(given.shape)[1] ]
              IN  answer' = IF throughput.raised
                            THEN [NoAnswer EXCEPT !.outcome = "ZeroDivisionError"]
                            ELSE IF ~Validates(r)
                            THEN [NoAnswer EXCEPT !.outcome = "ValidationError"]
                            ELSE r
    /\ UNCHANGED <<given, engineVars, metricsVars, serverVars, cliVars, compileVars>>

---------------------------------------------------------------------------
(* The shape range handed to torch_tensorrt.compile, inference.py:153-165 *)

\* the engine attributes the compile path reads, None before
NoConfig == [fp16 |-> FALSE, max_batch_size |-> 0 - 1]

NoInputs ==
    [ built              |-> FALSE,
      min_shape          |-> <<>>,
      opt_shape          |-> <<>>,
      max_shape          |-> <<>>,
      dtype              |-> "none",
      enabled_precisions |-> {} ]

\* line 156: self.max_batch_size // 2 + 1
HalfPlusTwo(max_batch) == (max_batch \div 2) + 2

opt_batch(max_batch) == (max_batch \div 2) + 1

\* lines 153-165: compile_inputs and enabled_precisions
BuildCompileInputs ==
    /\ ~compile_inputs.built
    /\ compile_inputs' =
          [ built              |-> TRUE,
            min_shape          |-> <<1, 3, 224, 224>>,
            opt_shape          |-> <<opt_batch(config.max_batch_size), 3, 224, 224>>,
            max_shape          |-> <<config.max_batch_size, 3, 224, 224>>,
            dtype              |-> IF config.fp16 THEN "half" ELSE "float",
            enabled_precisions |-> IF config.fp16 THEN {"float", "half"} ELSE {"float"} ]
    /\ UNCHANGED <<config, engineVars, metricsVars, serverVars, cliVars, responseVars>>

---------------------------------------------------------------------------
(* Specifications *)

vars == <<engineVars, metricsVars, otherVars>>

\* the engine side at rest, for the specifications of the collector
EngineIdle ==
    /\ env = CHOOSE e \in Environments : TRUE
    /\ file = NoFile
    /\ compileCount = 0
    /\ _ENGINE = 0
    /\ _ENGINE_LOCK = 0
    /\ engines = <<>>
    /\ pc = <<>>
    /\ cur = <<>>
    /\ result = <<>>
    /\ req = <<>>

\* the collector after import on a machine with no monitoring stack, for the
\* specifications of the engine
MetricsIdle ==
    /\ menv = [dcgm |-> "missing", nvml |-> "missing"]
    /\ _backend = "_StubBackend"
    /\ probed = <<"_DCGMBackend", "_NVMLBackend", "_StubBackend">>
    /\ held = {}
    /\ app = [a \in Apps |-> "absent"]
    /\ creq = [c \in CollectCallers |-> NoCollect]
    /\ closeCalls = 0
    /\ usedAfterClose = FALSE

\* no server, no run of compile_engine, no response being built
OthersIdle ==
    /\ loop = 0
    /\ http = <<>>
    /\ cli = NoCli
    /\ deletions = 0
    /\ config = NoConfig
    /\ compile_inputs = NoInputs
    /\ given = NoGiven
    /\ answer = NoAnswer

\* N tasks call get_engine()
Init == InitEngine /\ MetricsIdle /\ OthersIdle

Next == \E t \in Tasks : get_engine(t)

Spec == Init /\ [][Next]_vars

\* N threads call get_engine() and the scheduler is fair: a thread that has
\* called and can take its next step is not left out forever. The settings are
\* at their defaults except allow_cpu_fallback and no file is at the artifact
\* path; the GPU, torch_tensorrt and the pretrained weights are drawn, so that
\* constructors that return and constructors that raise both occur.
InitFair ==
    /\ InitEngine
    /\ env.device = "cuda" /\ env.model_fp16 /\ ~env.model_torch_weights   \* config.py:21-24
    /\ env.cp
    /\ file = NoFile
    /\ MetricsIdle
    /\ OthersIdle

\* the steps of a thread inside get_engine
Proceed(t) ==
    \/ Check1(t)
    \/ Acquire(t)
    \/ Check2(t)
    \/ CtorInit(t)
    \/ CtorLoad(t)
    \/ Assign(t)
    \/ Release(t)
    \/ Unwind(t)
    \/ Return(t)

SpecFair == InitFair /\ [][Next]_vars /\ \A t \in Tasks : WF_vars(Proceed(t))

\* callers run predict on the engine get_engine built
StartPredict == InitPredict /\ MetricsIdle /\ OthersIdle

NextPredict == \E t \in Callers : predict(t)

SpecPredict == StartPredict /\ [][NextPredict]_vars

\* import of app.metrics, then collect called with any integer
StartCollect == InitMetrics /\ EngineIdle /\ OthersIdle

NextCollect ==
    \/ Probe
    \/ ProbeStub
    \/ \E n \in (0 - 1)..MaxSamples : Collect(n)
    \/ \E fails \in BOOLEAN : Sample(0, fails)
    \/ Sleep(0)
    \/ Respond(0)

SpecCollect == StartCollect /\ [][NextCollect]_vars

\* import of app.metrics, applications built by create_app, their /metrics/gpu
\* requests and their shutdown events
NextMetrics ==
    \/ Probe
    \/ ProbeStub
    \/ \E a \in Apps : create_app(a)
    \/ \E a \in Apps, n \in 1..MaxSamples : gpu_metrics(a, n)
    \/ \E a \in Apps, fails \in BOOLEAN : Sample(a, fails)
    \/ \E a \in Apps : Sleep(a)
    \/ \E a \in Apps : Respond(a)
    \/ \E a \in Apps : _shutdown(a)

SpecMetrics == StartCollect /\ [][NextMetrics]_vars

\* one server with the engine built and the stub collector: requests arrive
\* for both routes and their handlers run on the event loop. The settings are
\* at their defaults; the GPU, the libraries and the artifact file are drawn.
StartServe ==
    /\ InitPredict
    /\ env.device = "cuda" /\ env.model_fp16       \* config.py:24, 21
    /\ menv = [dcgm |-> "missing", nvml |-> "missing"]
    /\ _backend = "_StubBackend"
    /\ probed = <<"_DCGMBackend", "_NVMLBackend", "_StubBackend">>
    /\ held = {}
    /\ app = [a \in Apps |-> IF a = Served THEN "serving" ELSE "absent"]
    /\ creq = [c \in CollectCallers |-> NoCollect]
    /\ closeCalls = 0
    /\ usedAfterClose = FALSE
    /\ loop = 0
    /\ http = [r \in Callers |-> NoHttp]
    /\ cli = NoCli
    /\ deletions = 0
    /\ config = NoConfig
    /\ compile_inputs = NoInputs
    /\ given = NoGiven
    /\ answer = NoAnswer

NextServe ==
    \/ \E r \in Callers, route \in {"infer", "metrics"} : Arrive(r, route)
    \/ \E r \in Callers : Dispatch(r)
    \/ \E r \in Callers : ReadUpload(r)
    \/ \E r \in Callers : Resume(r)
    \/ \E r \in Callers, payload \in Payloads : HandleInfer(r, payload)
    \/ \E r \in Callers : PredictStep(r)
    \/ \E r \in Callers, n \in 1..MaxSamples : HandleMetrics(r, n)
    \/ \E r \in Callers : CollectStep(r)
    \/ \E r \in Callers : Finish(r)

SpecServe == StartServe /\ [][NextServe]_vars

\* runs of compile_engine.py, one after the other, on any machine and any
\* file at the engine path; the file may be removed between them
StartCli ==
    /\ env \in Environments
    /\ file \in Files
    /\ compileCount = 0
    /\ _ENGINE = 0
    /\ _ENGINE_LOCK = 0
    /\ engines = <<>>
    /\ pc = <<>>
    /\ cur = <<>>
    /\ result = <<>>
    /\ req = <<>>
    /\ MetricsIdle
    /\ OthersIdle

NextCli ==
    \/ \E fp16_flag \in BOOLEAN, max_batch \in BatchSizes, force \in BOOLEAN :
          CliMain(fp16_flag, max_batch, force)
    \/ CliLoad
    \/ \E fails \in BOOLEAN : CliPredict(fails)
    \/ CliPrint
    \/ DeleteFile

SpecCli == StartCli /\ [][NextCli]_vars

\* the end of predict for every output vector of the model
StartRank ==
    /\ given \in [outputs : [Classes -> Logits], shape : {ImageShape}, clock : {<<0, 1, 1, 2>>}]
    /\ answer = NoAnswer
    /\ loop = 0
    /\ http = <<>>
    /\ cli = NoCli
    /\ deletions = 0
    /\ config = NoConfig
    /\ compile_inputs = NoInputs
    /\ EngineIdle
    /\ MetricsIdle

NextRank == Postprocess

SpecRank == StartRank /\ [][NextRank]_vars

\* the end of predict for every four readings of a clock that never goes back
StartTiming ==
    /\ given \in [outputs : {[c \in Classes |-> c % (MaxLogit + 1)]}, shape : {ImageShape},
                  clock : {t \in [1..4 -> Ticks] : \A i \in 1..3 : t[i] <= t[i + 1]}]
    /\ answer = NoAnswer
    /\ loop = 0
    /\ http = <<>>
    /\ cli = NoCli
    /\ deletions = 0
    /\ config = NoConfig
    /\ compile_inputs = NoInputs
    /\ EngineIdle
    /\ MetricsIdle

NextTiming == Postprocess

SpecTiming == StartTiming /\ [][NextTiming]_vars

\* the compile path for every max_batch_size from 0 up and both precisions;
\* nothing in Settings (config.py:38) or in --max-batch keeps the value above 0
StartShapes ==
    /\ config \in [fp16 : BOOLEAN, max_batch_size : 0..MaxBatch]
    /\ compile_inputs = NoInputs
    /\ loop = 0
    /\ http = <<>>
    /\ cli = NoCli
    /\ given = NoGiven
    /\ answer = NoAnswer
    /\ deletions = 0
    /\ EngineIdle
    /\ MetricsIdle

NextShapes == BuildCompileInputs

SpecShapes == StartShapes /\ [][NextShapes]_vars

---------------------------------------------------------------------------
(* Properties of get_engine and of the constructor, checked under Spec *)

Constructed(i) == i \in 1..Len(engines) /\ engines[i].constructed

\* A constructor call has raised: the task is leaving get_engine by the exception.
SomeConstructorRaised == \E t \in Tasks : pc[t] \in {"unwind", "raised"}

\* __init__ has returned for the object task t is building
PastConstruction(t) == pc[t] = "assign"

\* C1: as long as no constructor call raises, get_engine builds at most one
\* ResNet18Engine however the N tasks interleave, exactly one once any call has
\* returned; every call returns that one object, a call never returns None, and
\* the object a call returns (and the one _ENGINE names) has finished __init__.
C1_SingletonConstructedOnce ==
    ~SomeConstructorRaised =>
        /\ Len(engines) <= 1
        /\ _ENGINE # 0 => (_ENGINE = 1 /\ Constructed(1))
        /\ \A t \in Tasks :
              pc[t] = "done" =>
                  /\ Len(engines) = 1
                  /\ result[t] = 1
                  /\ Constructed(result[t])
        /\ \A t \in Tasks : pc[t] # "done" => result[t] = NotReturned

\* every task has returned from get_engine with the one engine
C1_Witness ==
    /\ \A t \in Tasks : pc[t] = "done" /\ result[t] = 1
    /\ Len(engines) = 1

\* The step in which task t's constructor runs _load_models to its end.
LoadStep(t) == pc[t] = "ctor_load" /\ pc'[t] # "ctor_load"

\* C2: a call of _load_or_compile_trt that finds a file at the artifact path
\* calls torch_tensorrt.compile zero times and leaves the file as it was; a call
\* that finds none, with torch_tensorrt importable, calls compile exactly once
\* and a file is at the path when it returns.
C2_LoadOrCompile ==
    [][\A t \in Tasks :
          (LoadStep(t) /\ engines'[cur[t]].loc_called) =>
              IF file.exists
              THEN /\ compileCount' = compileCount
                   /\ file' = file
                   /\ engines'[cur[t]].compiles = 0
              ELSE env.torch_tensorrt =>
                      /\ compileCount' = compileCount + 1
                      /\ engines'[cur[t]].compiles = 1
                      /\ file'.exists]_vars

\* an engine whose construction found no file, compiled once and left one
C2_Witness ==
    /\ file.exists
    /\ compileCount = 1
    /\ \E i \in 1..Len(engines) :
          /\ engines[i].loc_called
          /\ engines[i].compiles = 1
          /\ engines[i]._trt_module.origin = "compiled"

\* CUDA asked for, none there
CudaRequestedUnavailable == env.device = "cuda" /\ ~env.cuda_available

\* the weights can be loaded from one of the two sources
WeightsLoadable == env.pretrained_ok \/ env.model_torch_weights

\* C8: with CUDA requested, no CUDA device and allow_cpu_fallback false, every
\* constructor call raises: no object finishes __init__, _ENGINE stays None and
\* no get_engine call returns. With allow_cpu_fallback true (and loadable
\* weights) no constructor call raises and the engine a call returns is
\* complete: on the CPU, eager model set, no compiled module.
C8_NoEngineWithoutFallback ==
    /\ (CudaRequestedUnavailable /\ ~env.allow_cpu_fallback) =>
          /\ _ENGINE = 0
          /\ \A i \in 1..Len(engines) : ~engines[i].constructed
          /\ \A t \in Tasks :
                /\ result[t] = NotReturned
                /\ ~PastConstruction(t)
                /\ pc[t] \notin {"return", "done", "release"}
    /\ (CudaRequestedUnavailable /\ env.allow_cpu_fallback /\ WeightsLoadable) =>
          /\ ~SomeConstructorRaised
          /\ \A t \in Tasks :
                pc[t] = "done" =>
                    /\ Constructed(result[t])
                    /\ engines[result[t]].device = "cpu"
                    /\ engines[result[t]]._torch_model # NoModel
                    /\ engines[result[t]]._torch_model.on = "cpu"
                    /\ engines[result[t]]._trt_module = NoModule

\* the weights were loaded and the constructor still raised for want of CUDA
C8_Witness ==
    /\ CudaRequestedUnavailable /\ ~env.allow_cpu_fallback /\ WeightsLoadable
    /\ \E t \in Tasks : pc[t] = "raised"
    /\ \E i \in 1..Len(engines) : engines[i]._torch_model # NoModel
    /\ _ENGINE = 0

\* C9: an engine whose __init__ returned holds pretrained weights, or the
\* weights of the configured local file (and those only when the pretrained
\* ones could not be fetched); with neither available every constructor call
\* raises, no engine is ever returned and none carries random weights.
C9_NoRandomWeights ==
    /\ \A i \in 1..Len(engines) :
          engines[i].constructed =>
              \/ engines[i]._torch_model.weights = "pretrained" /\ env.pretrained_ok
              \/ /\ engines[i]._torch_model.weights = "local"
                 /\ ~env.pretrained_ok
                 /\ env.model_torch_weights
    /\ ~WeightsLoadable =>
          /\ _ENGINE = 0
          /\ \A i \in 1..Len(engines) : ~engines[i].constructed
          /\ \A t \in Tasks : result[t] = NotReturned /\ ~PastConstruction(t)

\* the constructor raised because no weights could be had
C9_Witness ==
    /\ ~WeightsLoadable
    /\ \E t \in Tasks : pc[t] = "raised"
    /\ _ENGINE = 0

---------------------------------------------------------------------------
(* Properties of predict, checked under SpecPredict *)

Finished(t) == pc[t] = "p_done"

\* predict itself was entered (the handler did not turn the request away)
PredictCalled(t) == req[t].via # "none" /\ req[t].outcome # "HTTP400"

ModelRuns(r) == SelectSeq(r.stages, LAMBDA x : x \in {"_trt_module", "_torch_model"})

\* C6 as claimed: every payload that cannot be decoded makes predict raise the
\* ValueError with no preprocessor, device transfer or model run before it.
C6_UndecodableIsValueError ==
    \A t \in Callers :
        (Finished(t) /\ PredictCalled(t) /\ ~Decodable(req[t].payload)) =>
            /\ req[t].error = "ValueError"
            /\ req[t].stages = <<>>

\* C7: a predict call that reaches execution runs exactly one backend, once:
\* the compiled module iff the engine holds one, the eager model otherwise, and
\* engine_name is "TensorRT" iff the compiled module ran, "PyTorch" iff the
\* eager model ran. A call that ends earlier runs no backend.
C7_OneBackendNamed ==
    \A t \in Callers :
        LET r    == req[t]
            self == engines[r.self]
            ran  == ModelRuns(r)
        IN  /\ (PredictCalled(t) /\ r.engine # "none") =>
                  /\ Len(ran) = 1
                  /\ (ran[1] = "_trt_module") <=> (self._trt_module # NoModule)
                  /\ (r.engine = "TensorRT") <=> (ran[1] = "_trt_module")
                  /\ (r.engine = "PyTorch") <=> (ran[1] = "_torch_model")
            /\ r.engine = "none" => ran = <<>>
            /\ r.outcome \in {"returned", "HTTP200"} => r.engine # "none"

\* one response from the compiled module and one from the eager model cannot
\* share an engine; the witness is a response named TensorRT
C7_Witness ==
    \E t \in Callers :
        /\ req[t].outcome = "returned"
        /\ req[t].engine = "TensorRT"
        /\ engines[req[t].self]._trt_module # NoModule

\* C10: no step of a predict call, returning or raising, alone or interleaved
\* with other calls, changes the singleton reference, any attribute of the
\* engine object (preprocessor, eager model, compiled module, device, fp16), the
\* lock or the artifact file, and none starts a construction.
C10_PredictFrame ==
    [][/\ _ENGINE' = _ENGINE
       /\ engines' = engines
       /\ _ENGINE_LOCK' = _ENGINE_LOCK
       /\ file' = file
       /\ compileCount' = compileCount]_vars

\* one call has raised while another, interleaved with it, has returned
C10_Witness ==
    \E t, u \in Callers :
        /\ req[t].error # "none"
        /\ req[u].outcome \in {"returned", "HTTP200"}
        /\ _ENGINE = 1
        /\ Constructed(1)

---------------------------------------------------------------------------
(* Properties of the collector, checked under SpecCollect and SpecMetrics *)

IsPrefix(p, q) == Len(p) <= Len(q) /\ \A i \in 1..Len(p) : p[i] = q[i]

ProbeOrder == <<"_DCGMBackend", "_NVMLBackend", "_StubBackend">>

\* the backend the claim expects for this machine
FirstWorking ==
    IF menv.dcgm = "ok" THEN "dcgm" ELSE IF menv.nvml = "ok" THEN "nvml" ELSE "stub"

\* C3: the collector's constructor calls the backend constructors in the order
\* DCGM, NVML, stub, stops at the first that does not raise and keeps it: its
\* source is "dcgm" when DCGM constructs, "nvml" when DCGM raises and NVML
\* constructs, "stub" when both raise; the selected class is the last one
\* constructed; and probing never ends without a backend (it never raises).
C3_FirstWorkingBackend ==
    /\ IsPrefix(probed, ProbeOrder)
    /\ Len(probed) = Len(ProbeOrder) => _backend # "None"
    /\ _backend # "None" =>
          /\ source(_backend) = FirstWorking
          /\ probed # <<>>
          /\ probed[Len(probed)] = _backend
          /\ (menv.dcgm # "ok" /\ menv.nvml = "ok") => source(_backend) = "nvml"
          /\ (menv.dcgm # "ok" /\ menv.nvml # "ok") => source(_backend) = "stub"
    /\ \A c \in CollectCallers :
          creq[c].outcome = "returned" => creq[c].source = FirstWorking

\* DCGM raised, NVML was kept and the stub never constructed
C3_Witness ==
    /\ menv.dcgm # "ok"
    /\ menv.nvml = "ok"
    /\ probed = <<"_DCGMBackend", "_NVMLBackend">>
    /\ source(_backend) = "nvml"

\* max(1, num_samples) for the argument of caller c's collect call
Wanted(c) == IF creq[c].arg > 1 THEN creq[c].arg ELSE 1

\* C4: in a collect(num_samples) call the calls of sample() and time.sleep
\* alternate, starting with sample(): never a sleep first, never two in a row.
\* There are never more than max(1, num_samples) samples, and a call that
\* returns (no sample() raised) has made exactly max(1, num_samples) sample()
\* calls and max(1, num_samples) - 1 sleeps, ends with a sample, not a sleep,
\* and returns exactly those samples in the order taken.
C4_SamplesAndSleeps ==
    \A c \in CollectCallers :
        LET r == creq[c]
            k == Wanted(c)
        IN  r.at # "idle" =>
               /\ \A i \in 1..Len(r.trace) :
                     r.trace[i] = IF i % 2 = 1 THEN "sample" ELSE "sleep"
               /\ Len(r.trace) <= 2 * k - 1
               /\ r.outcome = "returned" =>
                     /\ Len(r.trace) = 2 * k - 1
                     /\ Len(SelectSeq(r.trace, LAMBDA x : x = "sample")) = k
                     /\ Len(SelectSeq(r.trace, LAMBDA x : x = "sleep")) = k - 1
                     /\ r.returned = [i \in 1..k |-> 2 * i - 1]
               /\ r.outcome # "returned" => r.returned = <<>>

\* collect called with the largest argument has returned: its samples with a
\* sleep between each two
C4_Witness ==
    /\ creq[0].arg = MaxSamples
    /\ creq[0].outcome = "returned"
    /\ Len(creq[0].returned) = MaxSamples
    /\ Len(creq[0].trace) = 2 * MaxSamples - 1

\* C5 as claimed: however many applications create_app built and in whatever
\* order they shut down, close() is called at most once on the collector, and
\* neither collect nor sample() runs on it after a close().
C5_ClosedOnceThenUnused ==
    /\ closeCalls <= 1
    /\ ~usedAfterClose

---------------------------------------------------------------------------
(* Properties of the handlers on the event loop, checked under SpecServe *)

\* the handler of request q is inside collect's sleep, or inside predict's
\* preprocessing (with its device synchronisation) or model execution
HandlerBlocked(q) ==
    /\ loop = q
    /\ \/ http[q].route = "metrics" /\ creq[Served].at = "sleep"
       \/ http[q].route = "infer" /\ pc[q] \in {"p_pre", "p_exec"}

\* request r waits for the event loop: to be started, or to go on after its await
Waiting(r) == http[r].at \in {"pending", "reading"}

\* C11 as claimed: while the handler of one request is blocked in collect's
\* sleep or in predict's synchronisation and model execution, every other
\* request that waits for the loop can be scheduled: its handler can take its
\* next step at once, so an /infer request does not wait for a running
\* /metrics/gpu collect to take all its samples.
C11_OthersCanBeScheduled ==
    \A q \in Callers, r \in Callers :
        (HandlerBlocked(q) /\ Waiting(r)) => ENABLED (Dispatch(r) \/ Resume(r))

---------------------------------------------------------------------------
(* Properties of engine constructions that share one artifact path, checked *)
(* under SpecCli                                                             *)

RunBuiltOverFile ==
    /\ cli.at \in {"predict", "print", "done"}
    /\ cli.outcome # "RuntimeError"
    /\ engines[1].loc_called
    /\ cli.found # NoFile

\* C13 as claimed: a run with --force recompiles and replaces the file even
\* when one exists (the engine it built holds a module compiled in this run
\* for this run's configuration); a run without --force keeps the file and
\* uses it.
C13_ForceRecompiles ==
    RunBuiltOverFile =>
        IF cli.force
        THEN /\ engines[1].compiles = 1
             /\ engines[1]._trt_module = Module("compiled", Artifact(cli.fp16, cli.max_batch))
        ELSE /\ engines[1].compiles = 0
             /\ engines[1]._trt_module = Module("file", cli.found)

\* the device torch.device(...) of line 87 resolves to on this machine
Resolved == IF env.cuda_available THEN env.device ELSE "cpu"

\* C14: every engine object holds the CuPy preprocessor exactly when its device
\* resolved to CUDA and the cupy import succeeded, and the Torch preprocessor
\* otherwise; and once __init__ has set it, no step of the construction, of
\* predict or of the rest of a run replaces it.
C14_PreprocessorFixed ==
    /\ [](\A i \in 1..Len(engines) :
             /\ engines[i].device = Resolved
             /\ engines[i]._preprocessor =
                   IF Resolved = "cuda" /\ env.cp THEN "CuPyPreprocessor"
                   ELSE "TorchPreprocessor")
    /\ [][\A i \in 1..Len(engines) :
             (cli'.at # "load" /\ i <= Len(engines'))
                 => engines'[i]._preprocessor = engines[i]._preprocessor]_vars

\* an engine with the CuPy preprocessor has served the warm-up predict
C14_Witness ==
    /\ cli.at = "print"
    /\ engines[1]._preprocessor = "CuPyPreprocessor"
    /\ Resolved = "cuda" /\ env.cp

---------------------------------------------------------------------------
(* Properties of a failing sample(), checked under SpecCollect *)

\* C15: when sample() raises in a collect call on a selected backend, the call
\* ends there with the exception: nothing is returned, the failing sample()
\* is the last call of that collect (no sleep and no sample after it), and the
\* collector's backend is the one selected at import, before and after: a
\* collect that returns names that backend as its source.
C15_SampleFailurePropagates ==
    /\ [](\A c \in CollectCallers :
             LET r == creq[c]
             IN  /\ r.failed =>
                       /\ r.outcome = "raised"
                       /\ r.at = "done"
                       /\ r.returned = <<>> /\ r.source = "none"
                       /\ r.trace[Len(r.trace)] = "sample"
                       /\ Len(r.samples) =
                              Len(SelectSeq(r.trace, LAMBDA x : x = "sample")) - 1
                 /\ r.outcome = "returned" => r.source = source(_backend))
    /\ [][/\ _backend # "None" => (_backend' = _backend /\ probed' = probed)
          /\ \A c \in CollectCallers :
                (creq[c].failed /\ creq'[c] # creq[c]) => creq'[c].trace = <<>>]_vars

\* the second sample() of a collect on the NVML backend raised, after one
\* sample and one sleep
C15_Witness ==
    /\ _backend = "_NVMLBackend"
    /\ creq[0].failed
    /\ creq[0].outcome = "raised"
    /\ creq[0].trace = <<"sample", "sleep", "sample">>

---------------------------------------------------------------------------
(* Properties of the monitoring resources, checked under SpecMetrics *)

\* C16 as claimed: whatever the constructors of the candidates acquired while
\* the collector was built (NVML initialised, DCGM connected, fields watched),
\* after close() none of it is still held, whichever candidates failed or
\* succeeded.
C16_NothingHeldAfterClose == closeCalls >= 1 => held = {}

---------------------------------------------------------------------------
(* Properties of the response, checked under SpecRank and SpecTiming *)

\* a <= b for two quotients with positive denominators
Leq(a, b) == a.num * b.den <= b.num * a.den

\* the classes named by the candidates of the response
Named == {answer.top5[j].label : j \in DOMAIN answer.top5}

\* C17: for every output vector of the model, predict returns, and its
\* response has exactly five candidates for five different classes, each with
\* the score of its class, in order of non-increasing confidence, every
\* confidence within [0, 1], top1 the first of them, no class left out scoring
\* higher than a candidate, and batch_size 1.
C17_TopFive ==
    answer.outcome # "none" =>
        /\ answer.outcome = "returned"
        /\ Len(answer.top5) = 5
        /\ Cardinality(Named) = 5
        /\ \A j \in 1..5 :
              LET c == answer.top5[j]
              IN  /\ c.label \in Classes
                  /\ c.confidence = answer.scores[c.label]
                  /\ Leq(Quotient(0, 1), c.confidence)
                  /\ Leq(c.confidence, Quotient(1, 1))
                  /\ j < 5 => Leq(answer.top5[j + 1].confidence, c.confidence)
                  /\ \A other \in Classes \ Named : Leq(answer.scores[other], c.confidence)
        /\ answer.top1 = answer.top5[1]
        /\ answer.batch_size = 1

\* a response whose candidates do not all score alike, taken out of index
\* order, with a class left out that scores no more than the last candidate
C17_Witness ==
    /\ answer.outcome = "returned"
    /\ ~Leq(answer.top5[1].confidence, answer.top5[5].confidence)
    /\ answer.top5[1].label > answer.top5[2].label
    /\ \E other \in Classes \ Named : Leq(answer.scores[other], answer.top5[5].confidence)

\* C18: for every four clock readings, predict returns (no division by zero),
\* latency_ms is preprocess_ms + exec_ms and is not negative, and
\* throughput_fps is 1000 / latency_ms when latency_ms > 0 and infinite when
\* latency_ms is 0.
C18_LatencyAndThroughput ==
    answer.outcome # "none" =>
        /\ answer.outcome = "returned"
        /\ answer.preprocess_ms = (given.clock[2] - given.clock[1]) * 1000
        /\ answer.exec_ms = (given.clock[4] - given.clock[3]) * 1000
        /\ answer.latency_ms = answer.preprocess_ms + answer.exec_ms
        /\ answer.latency_ms >= 0
        /\ IF answer.latency_ms > 0
           THEN /\ ~answer.throughput_fps.inf
                /\ answer.throughput_fps.value.num * answer.latency_ms =
                       1000 * answer.throughput_fps.value.den
           ELSE answer.throughput_fps.inf

\* the clock did not advance during either measurement: latency 0, infinite
\* throughput, and a response all the same
C18_Witness ==
    /\ answer.outcome = "returned"
    /\ given.clock[1] = given.clock[2] /\ given.clock[3] = given.clock[4]
    /\ given.clock[2] < given.clock[3]
    /\ answer.latency_ms = 0
    /\ answer.throughput_fps.inf

---------------------------------------------------------------------------
(* Properties of the artifact chosen at construction, checked under SpecCli *)

\* the construction of the run has returned
RunBuilt == cli.at \in {"predict", "print", "done"} /\ cli.outcome # "RuntimeError"

C20_FileReusedUnchecked ==
    /\ [](\A i \in 1..Len(engines) :
             (cli.at \in {"predict", "print", "done"} /\ engines[i].loc_called
              /\ cli.found # NoFile)
                => /\ engines[i]._trt_module = Module("file", cli.found)
                   /\ engines[i].compiles = 0)
    /\ [][(cli.at = "load" /\ file # NoFile) => (file' = file /\ compileCount' = compileCount)]_vars

\* an engine configured for another precision and another batch size than the
\* file was compiled for holds the module of the file
C20_Witness ==
    /\ cli.at = "print"
    /\ engines[1].loc_called
    /\ cli.found # NoFile
    /\ cli.found.fp16 # engines[1].fp16
    /\ cli.found.max_batch # engines[1].max_batch_size
    /\ engines[1]._trt_module = Module("file", cli.found)
    /\ file = cli.found

---------------------------------------------------------------------------
(* Properties of a failing constructor in get_engine, checked under Spec and *)
(* SpecFair                                                                  *)

\* task t is inside the with block of get_engine
InGuard(t) == pc[t] \in {"check2", "ctor_init", "ctor_load", "assign", "release", "unwind"}

\* C21: a task that left get_engine by the constructor's exception does not
\* hold _ENGINE_LOCK, got no return value, and is the task that ran that
\* constructor call, on an object of its own (so every such task ran the
\* constructor again); _ENGINE stays None; a task waiting for the lock while
\* no task is inside the with block can take it; and a call that returns
\* returns a constructed engine, never None.
C21_RaiseReleasesGuard ==
    /\ \A t \in Tasks :
          pc[t] = "raised" =>
              /\ _ENGINE_LOCK # t
              /\ result[t] = NotReturned
              /\ cur[t] \in 1..Len(engines)
              /\ ~engines[cur[t]].constructed
              /\ \A u \in Tasks \ {t} : cur[u] # cur[t]
    /\ SomeConstructorRaised => _ENGINE = 0
    /\ (_ENGINE_LOCK # 0) => InGuard(_ENGINE_LOCK)
    /\ \A t \in Tasks :
          (pc[t] = "acquire" /\ \A u \in Tasks : ~InGuard(u)) => ENABLED Acquire(t)
    /\ \A t \in Tasks : pc[t] = "done" => (result[t] # 0 /\ Constructed(result[t]))

\* one task's constructor raised, and a task that was waiting for the lock
\* meanwhile has run the constructor again and seen it raise too
C21_Witness ==
    /\ \E t \in Tasks, u \in Tasks :
          /\ t # u
          /\ pc[t] = "raised" /\ pc[u] = "raised"
          /\ cur[t] = 1 /\ cur[u] = 2
    /\ Len(engines) = 2
    /\ \E v \in Tasks : pc[v] = "acquire"
    /\ _ENGINE = 0 /\ _ENGINE_LOCK = 0

\* C22: under fair scheduling every task that has called get_engine
\* eventually leaves it, by returning or by the constructor's exception: no
\* task waits for _ENGINE_LOCK forever.
C22_EveryCallerLeaves ==
    \A t \in Tasks : (pc[t] = "check1") ~> (pc[t] \in {"done", "raised"})

\* every task has left get_engine with the engine that one construction
\* compiled, and the lock is free again
C22_Witness ==
    /\ \A t \in Tasks : pc[t] = "done" /\ result[t] = _ENGINE
    /\ _ENGINE_LOCK = 0
    /\ engines[1]._trt_module.origin = "compiled"

---------------------------------------------------------------------------
(* Properties of the backends a built engine holds, checked under SpecCli *)

\* C23: an engine whose construction returned holds the eager model, so a
\* predict that takes the eager branch never fails its assertion; it holds a
\* compiled module only when its device resolved to CUDA; and the predict of
\* an engine on the CPU that ran a model ran the eager one.
C23_EagerAlwaysThere ==
    /\ \A i \in 1..Len(engines) :
          engines[i].constructed =>
              /\ engines[i]._torch_model # NoModel
              /\ engines[i]._torch_model.on = engines[i].device
              /\ engines[i]._trt_module # NoModule => engines[i].device = "cuda"
    /\ cli.outcome # "AssertionError"
    /\ (cli.engine # "none" /\ engines[1].device = "cpu") => cli.engine = "PyTorch"

\* CUDA was asked for and is absent, torch_tensorrt is importable and a file is
\* at the artifact path: the engine is built on the CPU, holds no compiled
\* module and its warm-up predict ran the eager model
C23_Witness ==
    /\ cli.at = "print"
    /\ env.device = "cuda" /\ ~env.cuda_available
    /\ env.torch_tensorrt /\ file # NoFile
    /\ engines[1].constructed
    /\ engines[1].device = "cpu"
    /\ engines[1]._trt_module = NoModule
    /\ engines[1]._torch_model # NoModel
    /\ cli.engine = "PyTorch"

---------------------------------------------------------------------------
(* Properties of the compile shape range, checked under SpecShapes *)

\* C24: for every max_batch_size >= 1 the batch sizes of the shape range
\* built for compilation are in order: minimum 1 <= optimal
\* floor(max_batch_size / 2) + 1 <= maximum max_batch_size.
C24_ShapeRangeOrdered ==
    (compile_inputs.built /\ config.max_batch_size >= 1) =>
        /\ compile_inputs.min_shape[1] = 1
        /\ compile_inputs.max_shape[1] = config.max_batch_size
        /\ 2 * (compile_inputs.opt_shape[1] - 1) <= config.max_batch_size
        /\ config.max_batch_size < 2 * compile_inputs.opt_shape[1]
        /\ compile_inputs.min_shape[1] <= compile_inputs.opt_shape[1]
        /\ compile_inputs.opt_shape[1] <= compile_inputs.max_shape[1]

\* the smallest case: max_batch_size 1, where all three batch sizes are 1
C24_Witness ==
    /\ compile_inputs.built
    /\ config.max_batch_size = 1
    /\ compile_inputs.opt_shape[1] = 1

=============================================================================
